---- MODULE Spec2Model ----
(***************************************************************************)
(* Throughmark: the consensus-and-verification pipeline of ImageAnalyzer   *)
(* (src/src/llm/analyzer.ts).  One analyzer instance, its token ledger     *)
(* this.totalTokens, and the asynchronous invocations running on it; the   *)
(* Throughmark facade that derives the grid and calls the analyzer; the    *)
(* batch script's processInChunks; a GridCalculator and the labels         *)
(* GridGenerator writes for its grid.                                      *)
(***************************************************************************)
EXTENDS Integers, Sequences, FiniteSets, TLC

(***************************************************************************)
(* Bounds of the model.                                                    *)
(***************************************************************************)
\* configured numPasses of the analyzer under check (config.numPasses)
NumPasses == 3
\* largest token count one backend call reports
MaxTok == 1
\* largest number of images one batch run finds
MaxImages == 7
\* the invocations that may run on the one analyzer instance
Inv == {1, 2}

(***************************************************************************)
(* JavaScript values that reach the aggregation: strings and numbers.      *)
(* A string is the sequence of its characters; a number carries its        *)
(* decimal digits (what String(n) yields when localeCompare coerces it).   *)
(***************************************************************************)
Str(s) == [t |-> "str", v |-> s]
Num(s) == [t |-> "num", v |-> s]

A1 == Str(<<"A", "1">>)
A2 == Str(<<"A", "2">>)
A10 == Str(<<"A", "1", "0">>)
B1 == Str(<<"B", "1">>)
Five == Num(<<"5">>)
Zero == Num(<<"0">>)
EmptyStr == Str(<<>>)

Digits == <<"0", "1", "2", "3", "4", "5", "6", "7", "8", "9">>
Letters == <<"A", "B", "C", "D", "E", "F", "G", "H", "I", "J", "K", "L", "M",
             "N", "O", "P", "Q", "R", "S", "T", "U", "V", "W", "X", "Y", "Z">>

IsDigit(c) == \E k \in 1..10 : Digits[k] = c
DigitVal(c) == (CHOOSE k \in 1..10 : Digits[k] = c) - 1
\* collation rank of a character: digits sort before letters
CharRank(c) ==
  IF IsDigit(c) THEN DigitVal(c)
  ELSE 10 + (CHOOSE k \in 1..26 : Letters[k] = c)

\* length of the run of digits of s that starts at position i
RECURSIVE DigitRun(_, _)
DigitRun(s, i) ==
  IF i > Len(s) \/ ~IsDigit(s[i]) THEN 0 ELSE 1 + DigitRun(s, i + 1)

\* value of the n digits of s that start at position i
RECURSIVE DigitsValue(_, _, _)
DigitsValue(s, i, n) ==
  IF n = 0 THEN 0
  ELSE 10 * DigitsValue(s, i, n - 1) + DigitVal(s[i + n - 1])

\* a.localeCompare(b, undefined, {numeric: true}) on character sequences,
\* from positions i of a and j of b: -1, 0 or 1
RECURSIVE NumericCompare(_, _, _, _)
NumericCompare(a, b, i, j) ==
  IF i > Len(a) /\ j > Len(b) THEN 0
  ELSE IF i > Len(a) THEN -1
  ELSE IF j > Len(b) THEN 1
  ELSE IF IsDigit(a[i]) /\ IsDigit(b[j]) THEN
    LET la == DigitRun(a, i)
        lb == DigitRun(b, j)
        va == DigitsValue(a, i, la)
        vb == DigitsValue(b, j, lb)
    IN  IF va < vb THEN -1
        ELSE IF va > vb THEN 1
        ELSE NumericCompare(a, b, i + la, j + lb)
  ELSE IF CharRank(a[i]) < CharRank(b[j]) THEN -1
  ELSE IF CharRank(a[i]) > CharRank(b[j]) THEN 1
  ELSE NumericCompare(a, b, i + 1, j + 1)

\* comparison by code unit, without the numeric option
RECURSIVE PlainCompare(_, _, _)
PlainCompare(a, b, i) ==
  IF i > Len(a) /\ i > Len(b) THEN 0
  ELSE IF i > Len(a) THEN -1
  ELSE IF i > Len(b) THEN 1
  ELSE IF CharRank(a[i]) < CharRank(b[i]) THEN -1
  ELSE IF CharRank(a[i]) > CharRank(b[i]) THEN 1
  ELSE PlainCompare(a, b, i + 1)
LocaleComparePlain(a, b) == PlainCompare(a.v, b.v, 1)

\* the comparator of the sort: (a, b) => a.localeCompare(b, ..numeric..);
\* b is coerced to a string, a must be one
LocaleCompare(a, b) == NumericCompare(a.v, b.v, 1, 1)

\* a.localeCompare is not a function: the comparator throws a TypeError
CompareThrows(a) == a.t # "str"

\* Array.prototype.sort throws when a comparator call throws.  V8 passes
\* every element but the first as the comparator's first argument.
SortThrows(list) == \E i \in 2..Len(list) : CompareThrows(list[i])

\* insert x into the sorted sequence s behind every element not above it
RECURSIVE InsertSorted(_, _)
InsertSorted(s, x) ==
  IF s = <<>> THEN <<x>>
  ELSE IF LocaleCompare(x, s[Len(s)]) >= 0 THEN Append(s, x)
  ELSE Append(InsertSorted(SubSeq(s, 1, Len(s) - 1), x), s[Len(s)])

\* no sort: the list as the Map's insertion order left it
SortCellsInsertionOrder(list) == list

\* the stable sort of list under LocaleCompare
RECURSIVE SortCells(_)
SortCells(list) ==
  IF list = <<>> THEN <<>>
  ELSE InsertSorted(SortCells(SubSeq(list, 1, Len(list) - 1)), list[Len(list)])


(***************************************************************************)
(* The aggregation of performInitialAnalysis: count every element of the   *)
(* flattened pass results in a Map, keep the keys counted twice or more,   *)
(* repeat each key count times, sort.                                      *)
(***************************************************************************)
\* a pass callback's return value: an array (arr) of elements, or the one
\* non-array value parsed.cells held
EmptyArray == [arr |-> TRUE, elems |-> <<>>]
ArrayOf(es) == [arr |-> TRUE, elems |-> es]
Scalar(e) == [arr |-> FALSE, elems |-> <<e>>]

\* results.flat(): arrays are spliced in, any other value stays one element
RECURSIVE Flat(_, _)
Flat(res, n) ==
  IF n = 0 THEN <<>>
  ELSE Flat(res, n - 1) \o (IF res[n].arr THEN res[n].elems ELSE <<res[n].elems[1]>>)

\* number of occurrences of key k in the sequence s (cellCounts.get(k))
CountOf(s, k) == Cardinality({j \in 1..Len(s) : s[j] = k})

\* the keys of the Map in insertion order: first occurrences in s
RECURSIVE MapKeys(_)
MapKeys(s) ==
  IF s = <<>> THEN <<>>
  ELSE LET rest == MapKeys(SubSeq(s, 1, Len(s) - 1))
           x == s[Len(s)]
       IN  IF \E j \in 1..Len(rest) : rest[j] = x THEN rest ELSE Append(rest, x)

\* .filter(([_, count]) => count >= 2)
MinVotes == 2
Kept(count) == count >= MinVotes

\* Array(count).fill(cell)
RECURSIVE Repeat(_, _)
Repeat(x, n) == IF n = 0 THEN <<>> ELSE Append(Repeat(x, n - 1), x)

\* [...cellCounts.entries()].filter(..).flatMap(..) over the keys ks
RECURSIVE Expand(_, _)
Expand(ks, s) ==
  IF ks = <<>> THEN <<>>
  ELSE LET k == ks[Len(ks)]
           c == CountOf(s, k)
       IN  Expand(SubSeq(ks, 1, Len(ks) - 1), s) \o (IF Kept(c) THEN Repeat(k, c) ELSE <<>>)

\* allCells before the sort
Unsorted(res) == LET s == Flat(res, Len(res)) IN Expand(MapKeys(s), s)

(***************************************************************************)
(* Backend responses.                                                      *)
(***************************************************************************)
\* response.usage: absent, or {input_tokens, output_tokens}
NoUsage == [present |-> FALSE, input_tokens |-> 0, output_tokens |-> 0]
Usage(a, b) == [present |-> TRUE, input_tokens |-> a, output_tokens |-> b]
Usages == {NoUsage} \cup {Usage(a, 2 * a) : a \in 1..MaxTok}

\* the text of a consensus response, by what JSON.parse makes of it:
\*   garbage  no JSON at all              null     the JSON null
\*   array    a top-level array           object   an object without cells
\*   cells    an object whose cells member is the value `cells`
Text(kind, cells) == [kind |-> kind, cells |-> cells]
Garbage == Text("garbage", EmptyArray)
JNull == Text("null", EmptyArray)
JArray == Text("array", EmptyArray)
JObject == Text("object", EmptyArray)
Cells(c) == Text("cells", c)

\* JSON.parse(response.text) throws a SyntaxError
ParseThrows(text) == text.kind = "garbage"
\* a falsy value: 0 or ""
Falsy(c) == ~c.arr /\ c.elems[1] \in {Zero, EmptyStr}

\* the try block of the pass callback: return parsed.cells || [],
\* and [] from the catch when JSON.parse or the member access throws
PassReturn(text) ==
  IF ParseThrows(text) THEN EmptyArray
  ELSE IF text.kind = "null" THEN EmptyArray
  ELSE IF text.kind \in {"array", "object"} THEN EmptyArray
  ELSE IF Falsy(text.cells) THEN EmptyArray
  ELSE text.cells

\* what analyzePair resolves with: valid is "response && typeof
\* response.text === 'string'"
PairResponse(valid, usage, text) == [valid |-> valid, usage |-> usage, text |-> text]

\* the responses the backend gives in the pipeline specifications
PipeTexts == {Garbage, Cells(ArrayOf(<<A1>>))}
PipeResponses ==
  {PairResponse(FALSE, u, Garbage) : u \in Usages}
    \cup {PairResponse(TRUE, u, t) : u \in Usages, t \in PipeTexts}

\* the responses the backend gives where the aggregation is under check
AggElems == {A1, A2, Five}
AggArrays == {<<>>} \cup {<<a>> : a \in AggElems} \cup {<<a, b>> : a \in AggElems, b \in AggElems}
AggTexts ==
  {Garbage, JNull, JArray, JObject, Cells(Scalar(A1)), Cells(Scalar(Five)),
   Cells(Scalar(Zero))} \cup {Cells(ArrayOf(es)) : es \in AggArrays}
AggResponses == {PairResponse(TRUE, NoUsage, t) : t \in AggTexts}

\* the responses the backend gives where the output order is under check:
\* arrays of grid labels over two rows and one- and two-digit columns
SortElems == {A2, A10, B1}
SortArrays == {<<>>} \cup {<<a>> : a \in SortElems} \cup {<<a, b>> : a \in SortElems, b \in SortElems}
SortResponses == {PairResponse(TRUE, NoUsage, Cells(ArrayOf(es))) : es \in SortArrays}

\* what client.analyze resolves with in the refinement call: a bare string
\* or {text, usage}; the text decodes to null, to an object without regions,
\* to an object with a regions array, or not at all; removed says that the
\* object also has the removedCells member the prompt asks for
RefineResponse(isString, usage, kind, regions, removed) ==
  [isString |-> isString, usage |-> usage, kind |-> kind, regions |-> regions,
   removed |-> removed]
RefineKinds == {"garbage", "null", "noregions", "regions"}
RefineRegions == {<<>>, <<<<A1>>>>}
RefineResponses ==
  {RefineResponse(FALSE, u, k, <<>>, FALSE) : u \in Usages, k \in RefineKinds \ {"regions"}}
    \cup {RefineResponse(FALSE, u, "regions", r, FALSE) : u \in Usages, r \in RefineRegions}
    \cup {RefineResponse(TRUE, NoUsage, k, <<>>, FALSE) : k \in {"garbage", "regions"}}
    \cup {RefineResponse(FALSE, NoUsage, "regions", <<<<A1>>>>, TRUE)}

(***************************************************************************)
(* The refinement prompt.                                                  *)
(***************************************************************************)
\* options.contiguousRegions as analyze() receives it
ContiguousOptions == {"true", "false", "omitted"}
\* options.contiguousRegions ?? false
ContiguousModeDefaultOn(opt) == opt # "false"
ContiguousMode(opt) == opt = "true"

\* the rule lines VERIFICATION_PROMPT_TEMPLATE adds under CRITICAL RULES
\* when contiguousMode holds
ContiguityRules ==
  <<"Any cells that share edges or corners MUST be in the same region",
    "ANY cells that share edges or corners MUST be grouped into ONE SINGLE region",
    "This is a hard constraint: do NOT split connected cells into different regions",
    "Even if cells appear to be different parts (like handle vs head), if they touch, they MUST be in the same region",
    "Check carefully for diagonal connections between cells">>
\* the conditional part of VERIFICATION_PROMPT_TEMPLATE(contiguousMode)
TemplateRules(contiguousMode) == IF contiguousMode THEN ContiguityRules ELSE <<>>

(***************************************************************************)
(* Construction: the backend handle, the pass count, the price table.      *)
(***************************************************************************)
\* an LLMConfig: provider, model (or "unset"), an injected client handle
\* (the name its getModel() answers, or "none"), numPasses (or NoNumber)
NoNumber == [given |-> FALSE, n |-> 0]
Number(n) == [given |-> TRUE, n |-> n]
LLMConfig(provider, model, injected, n) ==
  [provider |-> provider, model |-> model, injected |-> injected, numPasses |-> n]

\* createClient: the injected handle if there is one, else a client of
\* the provider's class for config.model || defaultModel; for any other
\* provider it throws and the constructor leaves no analyzer (class "none")
Providers == {"anthropic", "openai"}
DefaultModel(provider) ==
  IF provider = "openai" THEN "gpt-4o" ELSE "claude-3-5-sonnet-latest"
CreateClient(config) ==
  IF config.injected # "none"
  THEN [class |-> "injected", model |-> config.injected]
  ELSE [class |-> IF config.provider \in Providers THEN config.provider ELSE "none",
        model |-> IF config.model = "unset" THEN DefaultModel(config.provider)
                  ELSE config.model]

\* this.numPasses = config.numPasses || 4
DefaultNumPasses == 4
AnalyzerNumPasses(config) ==
  IF ~config.numPasses.given \/ config.numPasses.n = 0
  THEN DefaultNumPasses
  ELSE config.numPasses.n

\* the LLMConfig the Throughmark constructor hands to new ImageAnalyzer for
\* a caller's llm options: provider and model, nothing else
ThroughmarkConfig(llm) ==
  LLMConfig(IF llm.provider = "unset" THEN "anthropic" ELSE llm.provider,
            llm.model, "none", NoNumber)

\* MODEL_PRICING, in hundredths of a dollar per million tokens
PricedModels == {"gpt-4o", "gpt-4o-mini", "claude-3-7-sonnet-latest"}
Price(model) ==
  CASE model = "gpt-4o" -> [input |-> 250, output |-> 1000]
    [] model = "gpt-4o-mini" -> [input |-> 15, output |-> 60]
    [] model = "claude-3-7-sonnet-latest" -> [input |-> 300, output |-> 1500]

\* calculateCost, in units of 10^-8 dollars: priced only for a client of
\* class OpenAIClient or AnthropicClient whose model is in the table
CalculateCost(c, tokens) ==
  IF c.class \in {"openai", "anthropic"} /\ c.model \in PricedModels
  THEN tokens.input * Price(c.model).input + tokens.output * Price(c.model).output
  ELSE 0

\* calculateCost calls console.warn("No pricing found for model:", model):
\* in the OpenAIClient branch only
CostWarns(c) == c.class = "openai" /\ c.model \notin PricedModels

\* modelName of the result: getModel() for the two client classes,
\* "unknown" for any other handle
ModelName(c) == IF c.class \in {"openai", "anthropic"} THEN c.model ELSE "unknown"

(***************************************************************************)
(* The grid: GridCalculator.calculateDimensions.                           *)
(***************************************************************************)
\* a number as a fraction; num / den with den = 0 is NaN for num = 0 and
\* Infinity otherwise, and adding a finite number to either leaves it
Fraction(num, den) == [kind |-> "finite", num |-> num, den |-> den]
NaN == [kind |-> "NaN", num |-> 0, den |-> 0]
Infinity == [kind |-> "Infinity", num |-> 0, den |-> 0]
Min(a, b) == IF a <= b THEN a ELSE b
Max(a, b) == IF a >= b THEN a ELSE b
Grid(rows, cols) == [rows |-> rows, cols |-> cols]
\* config.rows ?? 0, config.cols ?? 0: no rows/cols configured
NoGrid == Grid(0, 0)
\* minCellSize (baseSize), maxCells, and the reference size in pixels
BaseSize == 150
MaxCells == 26
ReferenceSize == 1000

\* Math.min(Math.floor(extent / adjustedCellSize), maxCells) with
\* adjustedCellSize = minCellSize * Math.min(Math.min(width, height) / 1000, 1),
\* then Math.max(Math.floor(extent / (extent / that)), 1)
CellsAlongWith(minCellSize, maxCells, extent, width, height) ==
  LET shorter == Min(Min(width, height), ReferenceSize)
  IN  Max(Min((extent * ReferenceSize) \div (minCellSize * shorter), maxCells), 1)
CellsAlong(extent, width, height) ==
  CellsAlongWith(BaseSize, MaxCells, extent, width, height)
\* the rows and cols calculateDimensions derives from an image's dimensions
DerivedGrid(img) ==
  Grid(CellsAlong(img.height, img.width, img.height),
       CellsAlong(img.width, img.width, img.height))
\* this.config of the calculator after calculateDimensions(width, height):
\* rows and cols are kept when both are set, derived otherwise
CalculateDimensions(config, img) ==
  IF config.rows # 0 /\ config.cols # 0 THEN config ELSE DerivedGrid(img)

\* the images analysed: width and height in pixels
Image(w, h) == [width |-> w, height |-> h]
NoImage == Image(0, 0)
Images == {Image(1000, 1000), Image(2000, 1000)}
\* the gridConfig a caller of new ImageAnalyzer(config, gridConfig) passes
CallerGrid == Grid(5, 5)

\* new GridCalculator(config): minCellSize ?? baseSize, maxCells ?? 26,
\* rows ?? 0, cols ?? 0; every value is taken as given
NewCalculator(minCellSize, maxCells, rows, cols) ==
  [minCellSize |-> IF minCellSize.given THEN minCellSize.n ELSE BaseSize,
   maxCells |-> IF maxCells.given THEN maxCells.n ELSE MaxCells,
   rows |-> rows, cols |-> cols]
DefaultCalculator == NewCalculator(NoNumber, NoNumber, 0, 0)
\* this.config after calculateDimensions(width, height): untouched when rows
\* and cols are both set, else cols and rows are derived and written
CalculatorAfter(config, img) ==
  IF config.rows # 0 /\ config.cols # 0 THEN config
  ELSE [config EXCEPT
          !.cols = CellsAlongWith(config.minCellSize, config.maxCells,
                                  img.width, img.width, img.height),
          !.rows = CellsAlongWith(config.minCellSize, config.maxCells,
                                  img.height, img.width, img.height)]
\* the GridDimensions calculateDimensions(width, height) returns: the cell
\* sizes are width / cols and height / rows of a manual grid, and the
\* extent over Math.min(Math.floor(extent / adjustedCellSize), maxCells)
\* otherwise (a division by 0 gives Infinity)
Over(extent, n) == IF n = 0 THEN Infinity ELSE Fraction(extent, n)
FitAlong(minCellSize, maxCells, extent, width, height) ==
  Min((extent * ReferenceSize)
        \div (minCellSize * Min(Min(width, height), ReferenceSize)), maxCells)
GridDimensions(config, img) ==
  [width |-> img.width, height |-> img.height,
   cellWidth |-> IF config.rows # 0 /\ config.cols # 0
                 THEN Over(img.width, config.cols)
                 ELSE Over(img.width, FitAlong(config.minCellSize, config.maxCells,
                                               img.width, img.width, img.height)),
   cellHeight |-> IF config.rows # 0 /\ config.cols # 0
                  THEN Over(img.height, config.rows)
                  ELSE Over(img.height, FitAlong(config.minCellSize, config.maxCells,
                                                 img.height, img.width, img.height))]
NoDimensions == [width |-> 0, height |-> 0, cellWidth |-> NaN, cellHeight |-> NaN]
\* the char code of "A"
CharCodeA == 65
\* the labels generateLabels writes for a grid of rows by cols cells:
\* String.fromCharCode(65 + row) as a char code, and col + 1
GenerateLabels(rows, cols) ==
  {[code |-> CharCodeA + row, number |-> col + 1] :
     row \in 0..(rows - 1), col \in 0..(cols - 1)}

(***************************************************************************)
(* What a consensus pass sends: images, prompt, temperature.               *)
(***************************************************************************)
\* an image by what is drawn on it: the scene, with or without the grid
Picture(grid) == [scene |-> TRUE, grid |-> grid]
NoPicture == [scene |-> FALSE, grid |-> FALSE]
Original == Picture(FALSE)
\* processor.transformImage({image, addGrid}) without regions: the grid is
\* composited only if addGrid holds and the image is a path, not a Buffer
TransformImage(img, isBuffer, addGrid) == Picture(img.grid \/ (addGrid /\ ~isBuffer))

\* the instruction appended to the prompt of the pass with this index
\* (0-based) among n passes: "if (index === 0) ... else if (index ===
\* this.numPasses - 1) ..."
PromptBiasLastWins(index, n) ==
  IF index = n - 1 THEN "conservative"
  ELSE IF index = 0 THEN "liberal"
  ELSE "none"
PromptBias(index, n) ==
  IF index = 0 THEN "liberal"
  ELSE IF index = n - 1 THEN "conservative"
  ELSE "none"

\* tenths + (index * 0.6) / divisor
Schedule(tenths, index, divisor) ==
  IF divisor # 0 THEN Fraction(tenths * divisor + 6 * index, 10 * divisor)
  ELSE IF index = 0 THEN NaN
  ELSE Infinity
\* the first temperature in tenths: 0.2 for an AnthropicClient, 0.4 otherwise
LowTenthsAny(c) == 4
LowTenths(c) == IF c.class = "anthropic" THEN 2 ELSE 4
\* temperatures[index] for n passes: low + (index * 0.6) / (n - 1)
Temperature(c, index, n) == Schedule(LowTenths(c), index, n - 1)

\* the arguments of client.analyzePair(imageBuffer, imageBuffer,
\* adjustedPrompt, temp) for the pass with this index, img being the
\* imageBuffer parameter of performInitialAnalysis
Request(c, img, index, n) ==
  [first |-> img, second |-> img, bias |-> PromptBias(index, n),
   temperature |-> Temperature(c, index, n)]
NoRequest == [first |-> NoPicture, second |-> NoPicture, bias |-> "unsent", temperature |-> NaN]

(***************************************************************************)
(* State.                                                                  *)
(***************************************************************************)
VARIABLES
  caller,        \* history: how the analyzer was constructed and the llm options given
  client,        \* this.client: class and model name of the backend handle
  numPasses,     \* this.numPasses
  calcConfig,    \* rows and cols of the Throughmark's calculator.currentConfig
  gridConfig,    \* this.gridConfig of the analyzer instance
  image,         \* per invocation: dimensions of the image Throughmark.analyze was given
  grids,         \* history: per invocation, the grid each render was requested with
  items,         \* batch run: per image, "waiting", "inflight", "done" or "failed"
  completed,     \* batch run: the completed counter of processInChunks
  chunkStart,    \* batch run: index of the first image of the chunk being awaited
  batchPc,       \* batch run: "idle", "waiting", "resolved" or "rejected"
  input,         \* per invocation: the image buffer the analyzer method was called with
  requests,      \* per invocation and pass: what analyzePair was called with
  totalTokens,   \* this.totalTokens of the analyzer instance
  op,            \* per invocation: "none", "analyze" or "getCells"
  pc,            \* per invocation: where its async function is suspended
  stage,         \* per invocation: status of overlay, consensus, highlight, save, refine
  pass,          \* per invocation and pass: status of the pass callback
  passText,      \* per invocation and pass: kind of response the pass received
  results,       \* per invocation and pass: value the pass callback returned
  initialCells,  \* per invocation: the cell list performInitialAnalysis returned
  refineCells,   \* per invocation: the cell list serialised into the refinement prompt
  refineText,    \* per invocation: kind of response the refinement call received
  result,        \* per invocation: what the invocation returned
  options,       \* per invocation: the contiguousRegions option analyze() was called with
  refineRules,   \* per invocation: the conditional rule lines of the refinement prompt
  issued,        \* history: per invocation, how often each external call was issued
  reported,      \* history: per invocation, usage its backend calls reported
  rendered,      \* history: per invocation, the coordinates the highlighter computed
  calculator,    \* this.config of a GridCalculator constructed on its own
  dimensions,    \* the GridDimensions its last calculateDimensions returned
  labels         \* the cell labels the last generateLabels for that grid produced

vars == <<caller, client, numPasses, calcConfig, gridConfig, image, grids,
          items, completed, chunkStart, batchPc, input, requests, totalTokens, op, pc,
          stage, pass, passText, results, initialCells,
          refineCells, refineText, result, options, refineRules, issued, reported,
          rendered, calculator, dimensions, labels>>

\* what construction fixes: no method assigns client or numPasses
built == <<caller, client, numPasses>>
\* what only the Throughmark methods assign
facade == <<calcConfig, gridConfig, image>>
\* what only the calculator and the label generator assign
sizing == <<calculator, dimensions, labels>>
\* what only processInChunks assigns
batch == <<items, completed, chunkStart, batchPc>>
NoGrids == [verification |-> NoGrid, overlay |-> NoGrid, highlight |-> NoGrid]

\* the passes of one consensus stage: temperatures has numPasses entries
Passes == 1..numPasses

Tokens(i, o) == [input |-> i, output |-> o]
NoTokens == Tokens(0, 0)
NoResult ==
  [has |-> FALSE, regions |-> <<>>, tokens |-> [input |-> 0, output |-> 0, total |-> 0],
   cost |-> 0, modelName |-> "none", keys |-> {}]
Stages == {"overlay", "consensus", "highlight", "save", "refine"}

\* this.totalTokens.input += usage.input_tokens || 0, same for output,
\* under "if (response.usage)"
AddUsage(ledger, usage) ==
  IF usage.present
  THEN Tokens(ledger.input + usage.input_tokens, ledger.output + usage.output_tokens)
  ELSE ledger

\* the state after new ImageAnalyzer(config), reached directly (via =
\* "analyzer") or through new Throughmark({llm}) (via = "throughmark")
Constructed(via, llm) ==
  LET config == IF via = "throughmark" THEN ThroughmarkConfig(llm) ELSE llm IN
  /\ caller = [via |-> via, llm |-> llm]
  /\ client = CreateClient(config)
  /\ numPasses = AnalyzerNumPasses(config)
  /\ calcConfig = NoGrid
  /\ gridConfig = IF via = "throughmark" THEN NoGrid ELSE CallerGrid
  /\ image = [i \in Inv |-> NoImage]
  /\ grids = [i \in Inv |-> NoGrids]
  /\ input = [i \in Inv |-> NoPicture]
  /\ requests = [i \in Inv |-> [p \in Passes |-> NoRequest]]
  /\ totalTokens = NoTokens
  /\ op = [i \in Inv |-> "none"]
  /\ pc = [i \in Inv |-> "idle"]
  /\ stage = [i \in Inv |-> [s \in Stages |-> "none"]]
  /\ pass = [i \in Inv |-> [p \in Passes |-> "none"]]
  /\ passText = [i \in Inv |-> [p \in Passes |-> "none"]]
  /\ results = [i \in Inv |-> [p \in Passes |-> EmptyArray]]
  /\ initialCells = [i \in Inv |-> <<>>]
  /\ refineCells = [i \in Inv |-> <<>>]
  /\ refineText = [i \in Inv |-> "none"]
  /\ result = [i \in Inv |-> NoResult]
  /\ options = [i \in Inv |-> "none"]
  /\ refineRules = [i \in Inv |-> <<>>]
  /\ issued = [i \in Inv |-> [overlay |-> 0, highlight |-> 0, save |-> 0, refine |-> 0,
                              warn |-> 0, pair |-> [p \in Passes |-> 0]]]
  /\ reported = [i \in Inv |-> NoTokens]
  /\ rendered = [i \in Inv |-> <<>>]

\* a batch run over n images, before processInChunks is called
BatchOf(n) ==
  /\ items = [k \in 1..n |-> "waiting"]
  /\ completed = 0
  /\ chunkStart = 1
  /\ batchPc = "idle"

\* a GridCalculator as constructed, no label generated yet
Standalone(config) ==
  /\ calculator = config
  /\ dimensions = NoDimensions
  /\ labels = {}
\* calculator.calculateDimensions(img.width, img.height)
CalcDimensions(img) ==
  /\ calculator' = CalculatorAfter(calculator, img)
  /\ dimensions' = GridDimensions(calculator, img)
  /\ UNCHANGED <<labels, built, batch, facade, rendered, grids, input, requests, totalTokens,
                 op, pc, stage, pass, passText, results, initialCells, refineCells,
                 refineText, result, options, refineRules, issued, reported>>
\* new GridGenerator({rows, cols, cellLabels: true}) for the calculator's
\* current rows and cols, and its generateLabels(dimensions)
GenerateGrid ==
  /\ dimensions # NoDimensions
  /\ labels' = GenerateLabels(calculator.rows, calculator.cols)
  /\ UNCHANGED <<calculator, dimensions, built, batch, facade, rendered, grids, input, requests,
                 totalTokens, op, pc, stage, pass, passText, results, initialCells,
                 refineCells, refineText, result, options, refineRules, issued, reported>>

\* the analyzer under check unless a specification says otherwise:
\* new ImageAnalyzer({provider: "openai", numPasses: NumPasses}, gridConfig)
BaseConfig == LLMConfig("openai", "unset", "none", Number(NumPasses))
Init == Constructed("analyzer", BaseConfig) /\ BatchOf(0) /\ Standalone(DefaultCalculator)

(***************************************************************************)
(* Operations.  Each action is one synchronous run of the code between two *)
(* suspension points (await).                                              *)
(***************************************************************************)
\* temperatures.map(async ...): every callback runs up to its await of
\* client.analyzePair, so all passes are in flight when map returns
Dispatch == [p \in Passes |-> "inflight"]

\* Promise.all settles: fulfilled once every pass has, rejected at the
\* first pass that rejects
JoinReadyEager(ps) == \E p \in Passes : ps[p] \in {"resolved", "rejected"}
JoinReady(ps) == (\E p \in Passes : ps[p] = "rejected") \/ (\A p \in Passes : ps[p] = "resolved")
JoinRejectsNever(ps) == FALSE
JoinRejects(ps) == \E p \in Passes : ps[p] = "rejected"

\* status of a pass callback whose analyzePair call threw (threw) or answered
PassStatusSwallow(threw) == "resolved"
PassStatus(threw) == IF threw THEN "rejected" ELSE "resolved"

\* the pass callback throws after analyzePair answered with r: never, its
\* JSON.parse and member access sit inside the try block
CallbackThrowsUncaught(r) == r.valid /\ ParseThrows(r.text)
CallbackThrows(r) == FALSE

\* the ledger after a pass callback has handled response r: an invalid
\* response returns before the usage is added
PassLedger(ledger, r) == IF r.valid THEN AddUsage(ledger, r.usage) ELSE ledger

\* the value a pass callback returns for response r
PassResult(r) == IF r.valid THEN PassReturn(r.text) ELSE EmptyArray

\* performInitialAnalysis up to the await of Promise.all
StartConsensus(i, img) ==
  /\ requests' = [requests EXCEPT ![i] = [p \in Passes |-> Request(client, img, p - 1, numPasses)]]
  /\ pass' = [pass EXCEPT ![i] = Dispatch]
  /\ issued' = [issued EXCEPT ![i].pair = [p \in Passes |-> @[p] + 1]]

\* analyze(): reset the ledger, request the grid overlay render
EnterAnalyze(i, opt, img) ==
  /\ input' = [input EXCEPT ![i] = img]
  /\ totalTokens' = NoTokens
  /\ grids' = [grids EXCEPT ![i].overlay = gridConfig]
  /\ op' = [op EXCEPT ![i] = "analyze"]
  /\ options' = [options EXCEPT ![i] = opt]
  /\ pc' = [pc EXCEPT ![i] = "overlay"]
  /\ stage' = [stage EXCEPT ![i].overlay = "inflight"]
  /\ issued' = [issued EXCEPT ![i].overlay = @ + 1]
  /\ UNCHANGED <<built, batch, sizing, rendered, requests, facade, pass, passText, results, initialCells,
                 refineCells, refineText, result, refineRules, reported>>

\* analyze() called on the analyzer directly, with the original image
Analyze(i, opt) ==
  /\ pc[i] = "idle"
  /\ client.class # "none"
  /\ EnterAnalyze(i, opt, Original)

\* the overlay render settles; on success analyze() enters
\* performInitialAnalysis and dispatches the passes
OverlaySettle(i, ok) ==
  /\ pc[i] = "overlay"
  /\ IF ok
     THEN /\ stage' = [stage EXCEPT ![i].overlay = "ok", ![i].consensus = "inflight"]
          /\ pc' = [pc EXCEPT ![i] = "consensus"]
          /\ StartConsensus(i, TransformImage(input[i], TRUE, TRUE))
     ELSE /\ stage' = [stage EXCEPT ![i].overlay = "err"]
          /\ pc' = [pc EXCEPT ![i] = "failed"]
          /\ UNCHANGED <<pass, issued, requests>>
  /\ UNCHANGED <<built, batch, sizing, rendered, input, facade, grids, totalTokens, op, passText, results,
                 initialCells, refineCells, refineText, result, options, refineRules, reported>>

\* getCells(): performInitialAnalysis alone, no reset and no render
GetCells(i) ==
  /\ pc[i] = "idle"
  /\ client.class # "none"
  /\ op' = [op EXCEPT ![i] = "getCells"]
  /\ pc' = [pc EXCEPT ![i] = "consensus"]
  /\ stage' = [stage EXCEPT ![i].consensus = "inflight"]
  /\ input' = [input EXCEPT ![i] = Original]
  /\ StartConsensus(i, Original)
  /\ UNCHANGED <<built, batch, sizing, rendered, facade, grids, totalTokens, passText, results, initialCells,
                 refineCells, refineText, result, options, refineRules, reported>>

\* analyzePair of pass p answers with r: the rest of the pass callback
PassSettle(i, p, r) ==
  /\ pass[i][p] = "inflight"
  /\ pass' = [pass EXCEPT ![i][p] = PassStatus(CallbackThrows(r))]
  /\ passText' = [passText EXCEPT ![i][p] = IF r.valid THEN r.text.kind ELSE "invalid"]
  /\ totalTokens' = PassLedger(totalTokens, r)
  /\ results' = [results EXCEPT ![i][p] = PassResult(r)]
  /\ reported' = [reported EXCEPT ![i] = AddUsage(@, r.usage)]
  /\ UNCHANGED <<built, batch, sizing, rendered, input, requests, facade, grids, op, pc, stage, initialCells, refineCells, refineText, result,
                 options, refineRules, issued>>

\* analyzePair of pass p throws (network, auth, rate limit)
PassReject(i, p) ==
  /\ pass[i][p] = "inflight"
  /\ pass' = [pass EXCEPT ![i][p] = PassStatus(TRUE)]
  /\ passText' = [passText EXCEPT ![i][p] = "threw"]
  /\ UNCHANGED <<built, batch, sizing, rendered, input, requests, facade, grids, totalTokens, op, pc, stage, results, initialCells, refineCells,
                 refineText, result, options, refineRules, issued, reported>>

\* the await of Promise.all resumes: aggregate and go on, or throw
JoinConsensus(i) ==
  /\ pc[i] = "consensus"
  /\ JoinReady(pass[i])
  /\ LET all == Unsorted(results[i])
     IN  IF JoinRejects(pass[i]) \/ SortThrows(all)
         THEN /\ stage' = [stage EXCEPT ![i].consensus = "err"]
              /\ pc' = [pc EXCEPT ![i] = "failed"]
              /\ UNCHANGED <<initialCells, issued, grids>>
         ELSE /\ initialCells' = [initialCells EXCEPT ![i] = SortCells(all)]
              /\ IF op[i] = "getCells"
                 THEN /\ stage' = [stage EXCEPT ![i].consensus = "ok"]
                      /\ pc' = [pc EXCEPT ![i] = "returned"]
                      /\ UNCHANGED <<issued, grids>>
                 ELSE /\ stage' = [stage EXCEPT ![i].consensus = "ok", ![i].highlight = "inflight"]
                      /\ pc' = [pc EXCEPT ![i] = "highlight"]
                      /\ issued' = [issued EXCEPT ![i].highlight = @ + 1]
                      /\ grids' = [grids EXCEPT ![i].highlight = gridConfig]
  /\ UNCHANGED <<built, batch, sizing, rendered, input, requests, facade, totalTokens, op, pass, passText, results, refineCells, refineText, result,
                 options, refineRules, reported>>

\* the verification prompt is built from initialCells and client.analyze called
StartRefine(i) ==
  /\ refineCells' = [refineCells EXCEPT ![i] = initialCells[i]]
  /\ refineRules' = [refineRules EXCEPT ![i] = TemplateRules(ContiguousMode(options[i]))]
  /\ pc' = [pc EXCEPT ![i] = "refine"]

\* cell.charCodeAt(0) of a string: NaN for the empty string
CharCodeAt0(s) ==
  IF Len(s) = 0 THEN NaN
  ELSE IF IsDigit(s[1]) THEN Fraction(48 + DigitVal(s[1]), 1)
  ELSE Fraction(CharCodeA - 1 + (CHOOSE k \in 1..26 : Letters[k] = s[1]), 1)
\* parseInt(cell.slice(1)): the value of the leading digits, NaN without one
ParseIntSlice1(s) ==
  IF DigitRun(s, 2) = 0 THEN NaN ELSE Fraction(DigitsValue(s, 2, DigitRun(s, 2)), 1)
\* n - k in JavaScript numbers: NaN stays NaN
Minus(x, k) == IF x.kind = "finite" THEN Fraction(x.num - k, x.den) ELSE x
\* [row, col] = [cell.charCodeAt(0) - 65, parseInt(cell.slice(1)) - 1]
CellCoordinates(cell) ==
  [row |-> Minus(CharCodeAt0(cell.v), CharCodeA), col |-> Minus(ParseIntSlice1(cell.v), 1)]
\* region.cells.map(cell => ...) throws a TypeError for a cell without
\* slice and charCodeAt, that is for any cell that is not a string
RenderThrows(cells) == \E j \in 1..Len(cells) : cells[j].t # "str"
\* the coordinates generateHighlightOverlay computes for the cells of the
\* one region analyze() passes
Rendered(cells) == [j \in 1..Len(cells) |-> CellCoordinates(cells[j])]

\* the highlight render settles; with an imagePath outside the test
\* environment (save) the image is written before the refinement call
HighlightSettle(i, ok, save) ==
  /\ pc[i] = "highlight"
  /\ IF ~ok \/ RenderThrows(initialCells[i])
     THEN /\ stage' = [stage EXCEPT ![i].highlight = "err"]
          /\ pc' = [pc EXCEPT ![i] = "failed"]
          /\ UNCHANGED <<refineCells, refineRules, issued, rendered>>
     ELSE IF save
     THEN /\ stage' = [stage EXCEPT ![i].highlight = "ok", ![i].save = "inflight"]
          /\ pc' = [pc EXCEPT ![i] = "save"]
          /\ issued' = [issued EXCEPT ![i].save = @ + 1]
          /\ rendered' = [rendered EXCEPT ![i] = Rendered(initialCells[i])]
          /\ UNCHANGED <<refineCells, refineRules>>
     ELSE /\ stage' = [stage EXCEPT ![i].highlight = "ok", ![i].refine = "inflight"]
          /\ issued' = [issued EXCEPT ![i].refine = @ + 1]
          /\ rendered' = [rendered EXCEPT ![i] = Rendered(initialCells[i])]
          /\ StartRefine(i)
  /\ UNCHANGED <<built, batch, sizing, input, requests, facade, grids, totalTokens, op, pass, passText, results, initialCells, refineText, result,
                 options, reported>>

\* writeFile of the verification image settles
SaveSettle(i, ok) ==
  /\ pc[i] = "save"
  /\ IF ok
     THEN /\ stage' = [stage EXCEPT ![i].save = "ok", ![i].refine = "inflight"]
          /\ issued' = [issued EXCEPT ![i].refine = @ + 1]
          /\ StartRefine(i)
     ELSE /\ stage' = [stage EXCEPT ![i].save = "err"]
          /\ pc' = [pc EXCEPT ![i] = "failed"]
          /\ UNCHANGED <<refineCells, refineRules, issued>>
  /\ UNCHANGED <<built, batch, sizing, rendered, input, requests, facade, grids, totalTokens, op, pass, passText, results, initialCells, refineText, result,
                 options, reported>>

\* the ledger after performAnalysis has handled response r: a bare string
\* carries no usage
RefineLedger(ledger, r) == IF r.isString THEN ledger ELSE AddUsage(ledger, r.usage)

\* how the rest of analyze() ends for a refinement response of this kind:
\* JSON.parse throws (badjson), verifiedAnalysis.regions.forEach throws a
\* TypeError (badshape), or the result is returned (ok)
RefineOutcomeFallback(kind) ==
  IF kind \in {"null", "noregions"} THEN "badshape" ELSE "ok"
RefineOutcome(kind) ==
  IF kind = "garbage" THEN "badjson"
  ELSE IF kind \in {"null", "noregions"} THEN "badshape"
  ELSE "ok"

\* the tokens member of the returned object, read from this.totalTokens
ResultTokens(ledger) ==
  [input |-> ledger.input, output |-> ledger.output, total |-> ledger.input + ledger.output]

\* the member names of {...verifiedAnalysis, tokens: {...}} for the decoded
\* response r: every member of the decoded object, and tokens
ResultKeys(r) ==
  {"regions", "summary", "tokens"} \cup (IF r.removed THEN {"removedCells"} ELSE {})

\* client.analyze answers with r: the rest of performAnalysis and analyze()
RefineSettle(i, r) ==
  /\ pc[i] = "refine"
  /\ totalTokens' = RefineLedger(totalTokens, r)
  /\ reported' = [reported EXCEPT ![i] = AddUsage(@, r.usage)]
  /\ stage' = [stage EXCEPT ![i].refine = RefineOutcome(r.kind)]
  /\ refineText' = [refineText EXCEPT ![i] = r.kind]
  /\ IF RefineOutcome(r.kind) = "ok"
     THEN /\ pc' = [pc EXCEPT ![i] = "returned"]
          /\ result' = [result EXCEPT ![i] =
                          [has |-> TRUE, regions |-> r.regions,
                           tokens |-> ResultTokens(totalTokens'),
                           cost |-> CalculateCost(client, totalTokens'),
                           modelName |-> ModelName(client),
                           keys |-> ResultKeys(r)]]
          /\ issued' = [issued EXCEPT ![i].warn = IF CostWarns(client) THEN @ + 1 ELSE @]
     ELSE /\ pc' = [pc EXCEPT ![i] = "failed"]
          /\ UNCHANGED <<result, issued>>
  /\ UNCHANGED <<built, batch, sizing, rendered, input, requests, facade, grids, op, pass, passText, results,
                 initialCells, refineCells, options, refineRules>>

\* client.analyze throws
RefineReject(i) ==
  /\ pc[i] = "refine"
  /\ stage' = [stage EXCEPT ![i].refine = "err"]
  /\ refineText' = [refineText EXCEPT ![i] = "threw"]
  /\ pc' = [pc EXCEPT ![i] = "failed"]
  /\ UNCHANGED <<built, batch, sizing, rendered, input, requests, facade, grids, totalTokens, op, pass, passText, results, initialCells, refineCells,
                 result, options, refineRules, issued, reported>>

\* Throughmark.analyze({imagePath}): getGridDimensions awaits the image's
\* dimensions
TmAnalyze(i, img) ==
  /\ pc[i] = "idle"
  /\ client.class # "none"
  /\ caller.via = "throughmark"
  /\ op' = [op EXCEPT ![i] = "analyze"]
  /\ image' = [image EXCEPT ![i] = img]
  /\ pc' = [pc EXCEPT ![i] = "dimensions"]
  /\ UNCHANGED <<built, batch, sizing, rendered, input, requests, calcConfig, gridConfig, grids, totalTokens, stage, pass, passText,
                 results, initialCells, refineCells, refineText, result, options,
                 refineRules, issued, reported>>

\* processor.getDimensions settles: the rest of getGridDimensions runs
\* calculator.calculateDimensions and analyzer.updateGridConfig
TmDimensions(i, ok) ==
  /\ pc[i] = "dimensions"
  /\ IF ok
     THEN /\ calcConfig' = CalculateDimensions(calcConfig, image[i])
          /\ gridConfig' = calcConfig'
          /\ pc' = [pc EXCEPT ![i] = "dimensioned"]
     ELSE /\ pc' = [pc EXCEPT ![i] = "failed"]
          /\ UNCHANGED <<calcConfig, gridConfig>>
  /\ UNCHANGED <<built, batch, sizing, rendered, input, requests, image, grids, totalTokens, op, stage, pass, passText, results,
                 initialCells, refineCells, refineText, result, options, refineRules,
                 issued, reported>>

\* Throughmark.analyze resumes: generateVerificationImage requests the grid
\* image with the calculator's current rows and cols
TmVerification(i) ==
  /\ pc[i] = "dimensioned"
  /\ grids' = [grids EXCEPT ![i].verification = calcConfig]
  /\ pc' = [pc EXCEPT ![i] = "verification"]
  /\ UNCHANGED <<built, batch, sizing, rendered, input, requests, facade, totalTokens, op, stage, pass, passText, results,
                 initialCells, refineCells, refineText, result, options, refineRules,
                 issued, reported>>

\* the grid image is rendered: Throughmark.analyze calls analyzer.analyze
\* with it and with {contiguousRegions: options.contiguousRegions}
TmVerificationSettle(i, ok, opt) ==
  /\ pc[i] = "verification"
  /\ IF ok
     THEN EnterAnalyze(i, opt, TransformImage(Original, FALSE, TRUE))
     ELSE /\ pc' = [pc EXCEPT ![i] = "failed"]
          /\ UNCHANGED <<built, batch, sizing, rendered, input, requests, facade, grids, totalTokens, op, stage, pass, passText,
                         results, initialCells, refineCells, refineText, result, options,
                         refineRules, issued, reported>>

\* the batch script: MAX_CONCURRENT, and the images of the chunk that
\* starts at index first (items.slice(first, first + maxConcurrent))
MAX_CONCURRENT == 5
Chunk(first) == {k \in 1..Len(items) : first <= k /\ k < first + MAX_CONCURRENT}

\* Promise.all over the chunk's callbacks settles: fulfilled once every
\* image is done, rejected at the first image that fails
ChunkReadyEager(first) == \E k \in Chunk(first) : items[k] \in {"done", "failed"}
ChunkReady(first) ==
  (\E k \in Chunk(first) : items[k] = "failed") \/ (\A k \in Chunk(first) : items[k] = "done")
ChunkRejects(first) == \E k \in Chunk(first) : items[k] = "failed"

\* chunk.map(async item => ...): every image of the chunk is in flight
\* when map returns; with no chunk left processInChunks resolves
StartChunk(first) ==
  /\ chunkStart' = first
  /\ IF first > Len(items)
     THEN /\ batchPc' = "resolved"
          /\ UNCHANGED items
     ELSE /\ batchPc' = "waiting"
          /\ items' = [k \in 1..Len(items) |-> IF k \in Chunk(first) THEN "inflight" ELSE items[k]]

\* everything the batch script leaves alone
analysis == <<built, facade, sizing, rendered, grids, input, requests, totalTokens, op, pc, stage, pass, passText, results,
              initialCells, refineCells, refineText, result, options, refineRules,
              issued, reported>>

\* processInChunks(items, processor, MAX_CONCURRENT) up to its first await
BatchStart ==
  /\ batchPc = "idle"
  /\ completed' = 0
  /\ StartChunk(1)
  /\ UNCHANGED analysis

\* processor(item) resolves for image k: completed++
ItemResolve(k) ==
  /\ items[k] = "inflight"
  /\ items' = [items EXCEPT ![k] = "done"]
  /\ completed' = completed + 1
  /\ UNCHANGED <<chunkStart, batchPc, analysis>>

\* processor(item) rejects for image k (the child process exits non-zero)
ItemReject(k) ==
  /\ items[k] = "inflight"
  /\ items' = [items EXCEPT ![k] = "failed"]
  /\ UNCHANGED <<completed, chunkStart, batchPc, analysis>>

\* the await of Promise.all resumes: throw, or go on with the next chunk
ChunkJoin ==
  /\ batchPc = "waiting"
  /\ ChunkReady(chunkStart)
  /\ IF ChunkRejects(chunkStart)
     THEN /\ batchPc' = "rejected"
          /\ UNCHANGED <<items, chunkStart>>
     ELSE StartChunk(chunkStart + MAX_CONCURRENT)
  /\ UNCHANGED <<completed, analysis>>

(***************************************************************************)
(* Specifications.                                                         *)
(***************************************************************************)
\* every step invocation i can take in the pipeline
Step(i) ==
  \/ \E opt \in ContiguousOptions : Analyze(i, opt)
  \/ \E ok \in BOOLEAN : OverlaySettle(i, ok)
  \/ \E p \in Passes : \E r \in PipeResponses : PassSettle(i, p, r)
  \/ \E p \in Passes : PassReject(i, p)
  \/ JoinConsensus(i)
  \/ \E ok \in BOOLEAN, save \in BOOLEAN : HighlightSettle(i, ok, save)
  \/ \E ok \in BOOLEAN : SaveSettle(i, ok)
  \/ \E r \in RefineResponses : RefineSettle(i, r)
  \/ RefineReject(i)

\* one analyze() invocation on a fresh analyzer
Next == Step(1)
Spec == Init /\ [][Next]_vars

\* analyze() invocations on one analyzer, overlapping in any way; every
\* backend call answers with a well-formed response that reports its usage
OverlapUsage == Usage(1, 2)
OverlapPair == {PairResponse(TRUE, OverlapUsage, Cells(ArrayOf(<<A1>>)))}
OverlapRefine == {RefineResponse(FALSE, OverlapUsage, "regions", <<<<A1>>>>, FALSE)}
NextOverlap ==
  \E i \in Inv :
    \/ Analyze(i, "omitted")
    \/ OverlaySettle(i, TRUE)
    \/ \E p \in Passes : \E r \in OverlapPair : PassSettle(i, p, r)
    \/ JoinConsensus(i)
    \/ HighlightSettle(i, TRUE, FALSE)
    \/ \E r \in OverlapRefine : RefineSettle(i, r)
SpecOverlap == Init /\ [][NextOverlap]_vars

\* one getCells() invocation on a fresh analyzer, over the wide response set
NextAgg ==
  \/ GetCells(1)
  \/ \E p \in Passes : \E r \in AggResponses : PassSettle(1, p, r)
  \/ JoinConsensus(1)
SpecAgg == Init /\ [][NextAgg]_vars

\* one getCells() invocation on a fresh analyzer, every pass answering with
\* an array of grid labels
NextSort ==
  \/ GetCells(1)
  \/ \E p \in Passes : \E r \in SortResponses : PassSettle(1, p, r)
  \/ JoinConsensus(1)
SpecSort == Init /\ [][NextSort]_vars

\* one analyze() invocation on an analyzer built for any backend: the two
\* client classes with priced and unpriced models, and injected handles
CostConfigs ==
  {LLMConfig("openai", m, "none", Number(NumPasses)) :
     m \in {"unset", "gpt-4o-mini", "gpt-4-turbo"}}
    \cup {LLMConfig("anthropic", m, "none", Number(NumPasses)) :
             m \in {"unset", "claude-3-7-sonnet-latest"}}
    \cup {LLMConfig("openai", "unset", h, Number(NumPasses)) : h \in {"gpt-4o", "mock-model"}}
InitCost == BatchOf(0) /\ Standalone(DefaultCalculator) /\ \E llm \in CostConfigs : Constructed("analyzer", llm)
NextCost ==
  \/ Analyze(1, "omitted")
  \/ OverlaySettle(1, TRUE)
  \/ \E p \in Passes : \E r \in PipeResponses : PassSettle(1, p, r)
  \/ JoinConsensus(1)
  \/ HighlightSettle(1, TRUE, FALSE)
  \/ \E r \in RefineResponses : RefineSettle(1, r)
SpecCost == InitCost /\ [][NextCost]_vars

\* one analyze() invocation on an analyzer built directly or through
\* new Throughmark({llm}), with numPasses configured or left out
PassConfigs ==
  {LLMConfig("openai", "unset", "none", n) : n \in {NoNumber, Number(MinVotes), Number(NumPasses)}}
InitPasses ==
  /\ BatchOf(0)
  /\ Standalone(DefaultCalculator)
  /\ \E via \in {"analyzer", "throughmark"} : \E llm \in PassConfigs : Constructed(via, llm)
NextPasses ==
  \/ Analyze(1, "omitted")
  \/ OverlaySettle(1, TRUE)
  \/ \E p \in Passes : \E r \in PipeResponses : PassSettle(1, p, r)
  \/ JoinConsensus(1)
  \/ HighlightSettle(1, TRUE, FALSE)
  \/ \E r \in OverlapRefine : RefineSettle(1, r)
SpecPasses == InitPasses /\ [][NextPasses]_vars

\* Throughmark.analyze invocations on one Throughmark built without rows
\* and cols, overlapping in any way, each on an image of its own
InitGrid ==
  /\ Constructed("throughmark", LLMConfig("unset", "unset", "none", NoNumber))
  /\ BatchOf(0)
  /\ Standalone(DefaultCalculator)
NextGrid ==
  \E i \in Inv :
    \/ \E img \in Images : TmAnalyze(i, img)
    \/ \E ok \in BOOLEAN : TmDimensions(i, ok)
    \/ TmVerification(i)
    \/ \E ok \in BOOLEAN : TmVerificationSettle(i, ok, "omitted")
    \/ OverlaySettle(i, TRUE)
    \/ \E p \in Passes : \E r \in OverlapPair : PassSettle(i, p, r)
    \/ JoinConsensus(i)
    \/ HighlightSettle(i, TRUE, FALSE)
    \/ \E r \in OverlapRefine : RefineSettle(i, r)
SpecGrid == InitGrid /\ [][NextGrid]_vars

\* analyze() invocations on one analyzer, one after the other: the second
\* starts once the first has returned or failed; a pass may throw
Completed(i) == pc[i] \in {"returned", "failed"}
NextStale ==
  \E i \in Inv :
    \/ (\A j \in Inv : j < i => Completed(j)) /\ Analyze(i, "omitted")
    \/ OverlaySettle(i, TRUE)
    \/ \E p \in Passes : \E r \in OverlapPair : PassSettle(i, p, r)
    \/ \E p \in Passes : PassReject(i, p)
    \/ JoinConsensus(i)
    \/ HighlightSettle(i, TRUE, FALSE)
    \/ \E r \in OverlapRefine : RefineSettle(i, r)
SpecStale == Init /\ [][NextStale]_vars

\* one analyze() invocation on an analyzer of either client class or with
\* an injected handle, for 1, 2, NumPasses and the default number of passes
ScheduleConfigs ==
  {LLMConfig(pr, "unset", "none", n) :
     pr \in {"openai", "anthropic"}, n \in {NoNumber, Number(1), Number(MinVotes), Number(NumPasses)}}
    \cup {LLMConfig("openai", "unset", "mock-model", n) :
             n \in {NoNumber, Number(1), Number(MinVotes), Number(NumPasses)}}
InitSchedule == BatchOf(0) /\ Standalone(DefaultCalculator) /\ \E llm \in ScheduleConfigs : Constructed("analyzer", llm)
NextSchedule ==
  \/ Analyze(1, "omitted")
  \/ OverlaySettle(1, TRUE)
  \/ \E p \in Passes : \E r \in PipeResponses : PassSettle(1, p, r)
  \/ JoinConsensus(1)
  \/ HighlightSettle(1, TRUE, FALSE)
  \/ \E r \in OverlapRefine : RefineSettle(1, r)
SpecSchedule == InitSchedule /\ [][NextSchedule]_vars

\* one batch run over any number of images up to MaxImages
InitBatch ==
  /\ Constructed("analyzer", BaseConfig)
  /\ Standalone(DefaultCalculator)
  /\ \E n \in 0..MaxImages : BatchOf(n)
NextBatch ==
  \/ BatchStart
  \/ \E k \in 1..Len(items) : ItemResolve(k)
  \/ \E k \in 1..Len(items) : ItemReject(k)
  \/ ChunkJoin
SpecBatch == InitBatch /\ [][NextBatch]_vars

\* analyze() and getCells() on passes and a refiner that answer with
\* well-formed, out-of-grid (A10 on the 5 x 5 grid) and malformed cells
RenderElems == {A1, A10, EmptyStr, Five}
RenderArrays == {<<a>> : a \in RenderElems} \cup {<<A1, a>> : a \in RenderElems}
RenderResponses == {PairResponse(TRUE, NoUsage, Cells(ArrayOf(es))) : es \in RenderArrays}
RenderRefine ==
  {RefineResponse(FALSE, NoUsage, "regions", <<<<c>>>>, FALSE) : c \in {A1, A10, EmptyStr}}
NextRender ==
  \/ Analyze(1, "omitted")
  \/ GetCells(1)
  \/ OverlaySettle(1, TRUE)
  \/ \E p \in Passes : \E r \in RenderResponses : PassSettle(1, p, r)
  \/ JoinConsensus(1)
  \/ \E ok \in BOOLEAN : HighlightSettle(1, ok, FALSE)
  \/ \E r \in RenderRefine : RefineSettle(1, r)
SpecRender == Init /\ [][NextRender]_vars

\* analyzers and Throughmarks constructed with known and unknown provider
\* and model names, with and without an injected handle
ConfigChoices ==
  {LLMConfig(pr, m, h, Number(MinVotes)) :
     pr \in {"openai", "anthropic", "gemini", "unset"},
     m \in {"unset", "gpt-4o-mini", "no-such-model"},
     h \in {"none", "mock-model"}}
InitConfig ==
  /\ BatchOf(0)
  /\ Standalone(DefaultCalculator)
  /\ \E via \in {"analyzer", "throughmark"} : \E llm \in ConfigChoices : Constructed(via, llm)
NextConfig ==
  \/ Analyze(1, "omitted")
  \/ GetCells(1)
  \/ \E img \in Images : TmAnalyze(1, img)
  \/ \E ok \in BOOLEAN : TmDimensions(1, ok)
  \/ TmVerification(1)
  \/ \E ok \in BOOLEAN : TmVerificationSettle(1, ok, "omitted")
  \/ OverlaySettle(1, TRUE)
  \/ \E p \in Passes : \E r \in OverlapPair : PassSettle(1, p, r)
  \/ JoinConsensus(1)
  \/ HighlightSettle(1, TRUE, FALSE)
  \/ \E r \in OverlapRefine : RefineSettle(1, r)
SpecConfig == InitConfig /\ [][NextConfig]_vars

\* a GridCalculator on its own, for automatic and manual configurations,
\* and the labels generated for its grid
CalcConfigs ==
  {NewCalculator(s, m, r, c) :
     s \in {NoNumber, Number(10)}, m \in {NoNumber, Number(30)},
     r \in {0, 7, 27}, c \in {0, 8}}
CalcImages == Images \cup {Image(100, 100), Image(1024, 683), Image(4000, 3000)}
InitCalc ==
  /\ Constructed("analyzer", BaseConfig)
  /\ BatchOf(0)
  /\ \E config \in CalcConfigs : Standalone(config)
NextCalc ==
  \/ \E img \in CalcImages : CalcDimensions(img)
  \/ GenerateGrid
SpecCalc == InitCalc /\ [][NextCalc]_vars

(***************************************************************************)
(* Properties.                                                             *)
(***************************************************************************)
\* pass p of invocation i named cell c in the array it returned
Named(i, p, c) == \E j \in 1..Len(results[i][p].elems) : results[i][p].elems[j] = c
\* the number of distinct passes of invocation i that named c
VotesFor(i, c) == Cardinality({p \in Passes : Named(i, p, c)})
\* pass p received an object whose cells member is an array of strings
WellFormed(i, p) ==
  /\ passText[i][p] = "cells"
  /\ results[i][p].arr
  /\ \A j \in 1..Len(results[i][p].elems) : results[i][p].elems[j].t = "str"
\* the usage invocation i's backend calls reported, as a tokens member
OwnTokens(i) ==
  [input |-> reported[i].input, output |-> reported[i].output,
   total |-> reported[i].input + reported[i].output]
Threw(i) == \E p \in Passes : passText[i][p] = "threw"
AllUnparseable(i) == \A p \in Passes : passText[i][p] = "garbage"

\* C1: when getCells returns over well-formed pass results, a cell named by
\* fewer than 2 distinct passes is absent from the output and a cell named
\* by exactly k >= 2 distinct passes occurs exactly k times.
C1_VotesOfDistinctPasses ==
  (pc[1] = "returned" /\ \A p \in Passes : WellFormed(1, p)) =>
    \A c \in AggElems :
      CountOf(initialCells[1], c) = (IF VotesFor(1, c) < 2 THEN 0 ELSE VotesFor(1, c))

\* C2: when analyze returns, tokens.input and tokens.output are the sums of
\* the usage every backend call of the invocation reported, and tokens.total
\* is their sum.
C2_TokensSumEveryCall == pc[1] = "returned" => result[1].tokens = OwnTokens(1)

\* C3: with invocations overlapping on one analyzer, the tokens each one
\* returns count exactly the usage of its own backend calls.
C3_LedgerOwnedByInvocation ==
  \A i \in Inv : result[i].has => result[i].tokens = OwnTokens(i)

\* C4: overlay render, then the N consensus calls, then highlight render,
\* then the refinement call; a stage's calls are issued only after the
\* previous stage completed, every pass is issued exactly once, and no call
\* is issued a second time.
C4_StageOrder ==
  LET s == stage[1]
      q == issued[1]
  IN  /\ q.overlay <= 1 /\ q.highlight <= 1 /\ q.save <= 1 /\ q.refine <= 1
      /\ \A p \in Passes : q.pair[p] <= 1
      /\ (\E p \in Passes : q.pair[p] > 0) =>
           (s.overlay = "ok" /\ \A p \in Passes : q.pair[p] = 1)
      /\ q.highlight > 0 =>
           (s.consensus = "ok" /\ \A p \in Passes : pass[1][p] = "resolved")
      /\ q.refine > 0 => (s.highlight = "ok" /\ s.save \in {"none", "ok"})
      /\ result[1].has => (q.overlay = 1 /\ q.highlight = 1 /\ q.refine = 1)
\* a complete run in which one pass received unparseable text
C4_Witness ==
  /\ pc[1] = "returned"
  /\ issued[1].refine = 1
  /\ \E p \in Passes : passText[1][p] = "garbage"

\* C5: the consensus stage completes (returns its cell list or throws) only
\* after all N passes have settled, also when a pass fails.
C5_JoinWaitsForAll ==
  stage[1].consensus \in {"ok", "err"} =>
    \A p \in Passes : pass[1][p] \in {"resolved", "rejected"}

\* C6: once the backend call of a consensus pass has thrown, the invocation
\* returns no result: the consensus stage is waiting to throw or has thrown,
\* and analyze has failed with it.
C6_HardFailurePropagates ==
  Threw(1) =>
    /\ ~result[1].has
    /\ pc[1] \in {"consensus", "failed"}
    /\ stage[1].consensus \in {"inflight", "err"}
    /\ pc[1] = "consensus" => JoinReady(pass[1])
\* a pass threw, another pass answered with cells, analyze failed
C6_Witness ==
  /\ Threw(1)
  /\ pc[1] = "failed"
  /\ \E p \in Passes : passText[1][p] = "cells"

Malformed(i, p) == ~WellFormed(i, p)
Cleaned(i) == [p \in Passes |-> IF Malformed(i, p) THEN EmptyArray ELSE results[i][p]]
C8_MalformedPassIsEmpty ==
  pc[1] \in {"returned", "failed"} =>
    (pc[1] = "returned" /\ initialCells[1] = SortCells(Unsorted(Cleaned(1))))

\* C9: if every pass received unparseable text, the consensus stage does not
\* throw, the aggregated list is empty, the highlight render is requested,
\* and once it (and the optional save) succeeded the refinement call is
\* issued with the empty list.
C9_AllUnparseableProceeds ==
  (AllUnparseable(1) /\ pc[1] # "consensus") =>
    /\ stage[1].consensus = "ok"
    /\ initialCells[1] = <<>>
    /\ issued[1].highlight = 1
    /\ (stage[1].highlight = "ok" /\ stage[1].save \in {"none", "ok"}) =>
         (issued[1].refine = 1 /\ refineCells[1] = <<>>)
\* all passes unparseable and the refinement call in flight
C9_Witness == AllUnparseable(1) /\ pc[1] = "refine" /\ refineCells[1] = <<>>

\* C10: if the overlay render, the highlight render or the refinement call
\* fails, or the refinement text is not JSON, analyze fails without a result
\* and no later stage is started.
C10_HardFailureAborts ==
  LET q == issued[1]
  IN  /\ stage[1].overlay = "err" =>
           /\ pc[1] = "failed" /\ ~result[1].has
           /\ \A p \in Passes : q.pair[p] = 0
           /\ q.highlight = 0 /\ q.refine = 0
      /\ stage[1].highlight = "err" =>
           /\ pc[1] = "failed" /\ ~result[1].has
           /\ q.save = 0 /\ q.refine = 0
      /\ refineText[1] \in {"threw", "garbage"} =>
           /\ pc[1] = "failed" /\ ~result[1].has
\* the refinement call answered with text that is not JSON
C10_Witness == refineText[1] = "garbage" /\ pc[1] = "failed" /\ stage[1].highlight = "ok"

\* row letter and column number of a grid label
RowOf(c) == CHOOSE k \in 1..26 : Letters[k] = c.v[1]
ColOf(c) == DigitsValue(c.v, 2, Len(c.v) - 1)
\* label a is not behind label b: earlier row, or same row and no larger column
NotBehind(a, b) == RowOf(a) < RowOf(b) \/ (RowOf(a) = RowOf(b) /\ ColOf(a) <= ColOf(b))
\* every repetition of one element of list sits in one block
Adjacent(list) ==
  \A j \in 1..Len(list), k \in 1..Len(list) :
    (j < k /\ list[j] = list[k]) => \A m \in j..k : list[m] = list[j]

\* C11: the list getCells returns is ordered by row letter, then by column
\* number compared as a number (A2 before A10 before B1), and all
\* repetitions of one cell are adjacent, whatever the passes voted.
C11_SortedByRowThenNumericColumn ==
  (op[1] = "getCells" /\ pc[1] = "returned") =>
    /\ \A j \in 1..(Len(initialCells[1]) - 1) :
         NotBehind(initialCells[1][j], initialCells[1][j + 1])
    /\ Adjacent(initialCells[1])
C11_Witness ==
  /\ op[1] = "getCells" /\ pc[1] = "returned"
  /\ initialCells[1] = <<A2, A2, A10, A10, B1, B1>>

\* the refinement prompt of invocation i carries the contiguity instruction
HasContiguityInstruction(i) ==
  \E j \in 1..Len(refineRules[i]) :
    refineRules[i][j] \in
      {"ANY cells that share edges or corners MUST be grouped into ONE SINGLE region",
       "This is a hard constraint: do NOT split connected cells into different regions"}

\* C12: once the refinement call of an analyze() invocation is issued, its
\* prompt carries the contiguity instruction exactly when the invocation
\* was called with contiguousRegions = true; with false or with the option
\* omitted the instruction is absent.
C12_ContiguityInstructionIffOption ==
  \A i \in Inv :
    issued[i].refine > 0 => (HasContiguityInstruction(i) <=> options[i] = "true")
C12_Witness ==
  /\ issued[1].refine > 0
  /\ options[1] = "true"
  /\ HasContiguityInstruction(1)

\* C13: whenever the model name the backend handle reports has an entry in
\* the price table, the returned cost is input * price.input + output *
\* price.output over the returned token counts (per million tokens) and
\* the returned modelName is that model name, injected handles included.
C13_CostFromPriceTable ==
  \A i \in Inv :
    (result[i].has /\ client.model \in PricedModels) =>
      /\ result[i].cost = result[i].tokens.input * Price(client.model).input
                            + result[i].tokens.output * Price(client.model).output
      /\ result[i].modelName = client.model

\* the number of consensus passes invocation i has issued
IssuedPasses(i) == Cardinality({p \in DOMAIN issued[i].pair : issued[i].pair[p] > 0})

\* C14: once the consensus stage of an invocation has started, the number
\* of passes issued is the numPasses the caller configured, whether the
\* analyzer was built directly or through Throughmark, and 4 when the
\* caller configured none.
C14_PassesAsConfigured ==
  \A i \in Inv :
    stage[i].consensus # "none" =>
      IssuedPasses(i) = IF caller.llm.numPasses.given THEN caller.llm.numPasses.n ELSE 4

\* C15: on a Throughmark without configured rows/cols, every render of an
\* analysis (grid image, overlay, highlight) is requested with the grid
\* derived from the dimensions of that analysis's own image, for the first
\* and for every later image, so the grid is the same at the overlay
\* render and at the highlight render.
C15_GridOfOwnImage ==
  \A i \in Inv :
    /\ pc[i] \notin {"idle", "dimensions", "dimensioned", "failed"} =>
         grids[i].verification = DerivedGrid(image[i])
    /\ issued[i].overlay > 0 => grids[i].overlay = DerivedGrid(image[i])
    /\ issued[i].highlight > 0 =>
         /\ grids[i].highlight = DerivedGrid(image[i])
         /\ grids[i].highlight = grids[i].overlay

\* C16: the object analyze() returns carries only regions, summary and
\* tokens; the removedCells member of the refinement response is not
\* part of it.
C16_ResultWithoutRemovedCells ==
  \A i \in Inv : result[i].has => result[i].keys \subseteq {"regions", "summary", "tokens"}

\* the images of the batch run in a given status
InStatus(st) == {k \in 1..Len(items) : items[k] = st}
\* index of the first image of the chunk image k belongs to
ChunkFirst(k) == ((k - 1) \div 5) * 5 + 1

\* C17: at most 5 images are in flight at once; an image is started only
\* when every image of the chunks before its own has completed; when
\* processInChunks has resolved, completed equals the number of images.
C17_ChunkedConcurrency ==
  /\ Cardinality(InStatus("inflight")) <= 5
  /\ \A k \in 1..Len(items) :
       items[k] # "waiting" => \A j \in 1..(ChunkFirst(k) - 1) : items[j] = "done"
  /\ batchPc = "resolved" => completed = Len(items)
C17_Witness ==
  /\ batchPc = "resolved"
  /\ Len(items) > 5
  /\ completed = Len(items)

\* C18: a pass votes at most once per cell: when getCells returns, a cell
\* that at most one pass named is absent from the list however often that
\* pass repeated it, and no cell occurs more often than there are passes.
C18_OneVotePerPassAndCell ==
  (op[1] = "getCells" /\ pc[1] = "returned") =>
    \A c \in SortElems :
      /\ VotesFor(1, c) <= 1 => CountOf(initialCells[1], c) = 0
      /\ CountOf(initialCells[1], c) <= numPasses

\* how often cell c occurs in the answers of the first n passes of invocation i
RECURSIVE Occurrences(_, _, _)
Occurrences(i, c, n) ==
  IF n = 0 THEN 0 ELSE Occurrences(i, c, n - 1) + CountOf(results[i][n].elems, c)
\* the block of cell c in the output, from the vote multiset alone
Block(i, c) ==
  IF Occurrences(i, c, numPasses) >= 2 THEN Repeat(c, Occurrences(i, c, numPasses)) ELSE <<>>

C20_NoLedgerWriteAfterCompletion ==
  [][\A i \in Inv : (Completed(i) /\ pass'[i] # pass[i]) => totalTokens' = totalTokens]_vars

\* the consensus passes of invocation i have been dispatched
Dispatched(i) == stage[i].consensus # "none"

\* C21 as stated: once the passes are dispatched, the first pass has the
\* liberal instruction, the last pass has the conservative instruction and
\* every pass between them has none, for every number of passes.
C21_BiasFirstAndLast ==
  \A i \in Inv :
    Dispatched(i) =>
      /\ requests[i][1].bias = "liberal"
      /\ requests[i][numPasses].bias = "conservative"
      /\ \A p \in Passes : (1 < p /\ p < numPasses) => requests[i][p].bias = "none"

\* C21 amended: the same for two passes or more; a single pass has the
\* liberal instruction; the instruction of a pass never changes after
\* dispatch.
C21_BiasFirstAndLastOfTwoOrMore ==
  \A i \in Inv :
    Dispatched(i) =>
      /\ requests[i][1].bias = "liberal"
      /\ numPasses >= 2 => requests[i][numPasses].bias = "conservative"
      /\ \A p \in Passes : (1 < p /\ p < numPasses) => requests[i][p].bias = "none"
C21_Witness ==
  /\ pc[1] = "returned"
  /\ numPasses >= 3
  /\ requests[1][1].bias = "liberal"
  /\ requests[1][2].bias = "none"
  /\ requests[1][numPasses].bias = "conservative"

\* C22: once the passes are dispatched, every pass has sent the original
\* image without the grid as first image and the image with the grid as
\* second image.
C22_OriginalAndGridImage ==
  \A i \in Inv :
    Dispatched(i) =>
      \A p \in Passes :
        /\ requests[i][p].first = Picture(FALSE)
        /\ requests[i][p].second = Picture(TRUE)

\* the range of the schedule in tenths: 0.2..0.8 for the Anthropic client,
\* 0.4..1.0 otherwise
RangeLow == IF client.class = "anthropic" THEN 2 ELSE 4
RangeHigh == IF client.class = "anthropic" THEN 8 ELSE 10
\* the fraction t equals tenths / (10 * parts)
EqualsTenths(t, tenths, parts) ==
  t.kind = "finite" /\ t.den # 0 /\ t.num * 10 * parts = tenths * t.den

\* C23: with two passes or more, pass p (counted from 0) is sent with
\* temperature low + p * (high - low) / (N - 1): the first pass with low,
\* the last with high, and four passes of the Anthropic client with 0.2,
\* 0.4, 0.6 and 0.8.
C23_TemperatureSchedule ==
  \A i \in Inv :
    (Dispatched(i) /\ numPasses >= 2) =>
      /\ \A p \in Passes :
           EqualsTenths(requests[i][p].temperature,
                        RangeLow * (numPasses - 1) + (p - 1) * (RangeHigh - RangeLow),
                        numPasses - 1)
      /\ EqualsTenths(requests[i][1].temperature, RangeLow, 1)
      /\ EqualsTenths(requests[i][numPasses].temperature, RangeHigh, 1)
      /\ (numPasses = 4 /\ client.class = "anthropic") =>
           \A p \in Passes : EqualsTenths(requests[i][p].temperature, 2 * p, 1)
C23_Witness ==
  /\ Dispatched(1)
  /\ numPasses = 4
  /\ client.class = "anthropic"
  /\ EqualsTenths(requests[1][2].temperature, 4, 1)
  /\ EqualsTenths(requests[1][3].temperature, 6, 1)

\* C24: a single pass is sent with a well-defined temperature inside the
\* range of its backend.
C24_SinglePassMidRange ==
  \A i \in Inv :
    (Dispatched(i) /\ numPasses = 1) =>
      LET t == requests[i][1].temperature IN
      /\ t.kind = "finite" /\ t.den > 0
      /\ RangeLow * t.den < 10 * t.num
      /\ 10 * t.num < RangeHigh * t.den

\* C25: when the model of the backend handle has no price table entry, an
\* analyze() that returns reports cost 0 and has surfaced a warning, for
\* the OpenAI client, the Anthropic client and an injected handle alike.
C25_UnpricedModelWarns ==
  \A i \in Inv :
    (result[i].has /\ client.model \notin PricedModels) =>
      (result[i].cost = 0 /\ issued[i].warn > 0)

\* C26: an analyzer built without a model prices its tokens by the entry
\* of its provider's default model; for the Anthropic provider that is
\* $3.00 per million input tokens and $15.00 per million output tokens.
C26_DefaultModelPriced ==
  \A i \in Inv :
    (result[i].has /\ caller.llm.model = "unset" /\ caller.llm.injected = "none") =>
      /\ client.model \in PricedModels
      /\ caller.llm.provider = "anthropic" =>
           result[i].cost = result[i].tokens.input * 300 + result[i].tokens.output * 1500

\* C28: after any sequence of calculateDimensions calls, rows and cols of
\* the calculator are in 1..26, and every label generated for its grid has
\* a row letter A..Z and a column number in 1..26.
C28_GridWithinSingleLetters ==
  /\ dimensions # NoDimensions =>
       (calculator.rows \in 1..26 /\ calculator.cols \in 1..26)
  /\ \A l \in labels :
       /\ l.code \in CharCodeA..(CharCodeA + 25)
       /\ l.number \in 1..26

\* a cell identifier of the grid: a letter A..Z, then digits only, naming
\* a row and a column (from 1) that the grid has
ValidCell(cell, grid) ==
  /\ cell.t = "str"
  /\ Len(cell.v) >= 2
  /\ \E k \in 1..26 : Letters[k] = cell.v[1]
  /\ \A k \in 2..Len(cell.v) : IsDigit(cell.v[k])
  /\ RowOf(cell) \in 1..grid.rows
  /\ ColOf(cell) \in 1..grid.cols
\* coordinates of a cell of the grid, counted from 0
InsideGrid(at, grid) ==
  /\ at.row.kind = "finite" /\ at.row.num \in 0..(grid.rows - 1)
  /\ at.col.kind = "finite" /\ at.col.num \in 0..(grid.cols - 1)

\* C29: no malformed or out-of-grid cell identifier is converted into
\* coordinates by a highlight render that succeeds, returned by getCells,
\* or returned in a region of the result: the call that meets it fails.
C29_BadCellFailsTheCall ==
  \A i \in Inv :
    /\ \A j \in 1..Len(rendered[i]) :
         /\ ValidCell(initialCells[i][j], grids[i].highlight)
         /\ InsideGrid(rendered[i][j], grids[i].highlight)
    /\ (op[i] = "getCells" /\ pc[i] = "returned") =>
         \A j \in 1..Len(initialCells[i]) : ValidCell(initialCells[i][j], gridConfig)
    /\ result[i].has =>
         \A k \in 1..Len(result[i].regions) : \A j \in 1..Len(result[i].regions[k]) :
           ValidCell(result[i].regions[k][j], gridConfig)

\* the model names the program knows: those of the OpenAIModel and
\* AnthropicModel types and the two defaults of createClient
KnownModels == PricedModels \cup {DefaultModel(pr) : pr \in Providers}

\* C30: with an unknown provider or an unknown model name in its
\* configuration no analyzer is constructed, and no backend call is issued.
C30_UnknownBackendFailsConstruction ==
  (\/ caller.llm.provider \notin Providers \cup {"unset"}
   \/ caller.llm.model \notin KnownModels \cup {"unset"}) =>
    /\ client.class = "none"
    /\ \A i \in Inv : \A p \in Passes : issued[i].pair[p] = 0 /\ issued[i].refine = 0

\* how analyze() ends for a refinement response of this kind when the
\* statements of analyzer.ts:283-329 are left out: JSON.parse throws, or
\* {...verifiedAnalysis, tokens} is returned (spreading null adds no member)
OutcomeWithoutLogging(kind) == IF kind = "garbage" THEN "badjson" ELSE "ok"

\* C27: for every refinement response that decodes as JSON, analyze()
\* ends (returns or fails) as it would without the diagnostic logging.
C27_LoggingKeepsControlFlow ==
  \A i \in Inv :
    (pc[i] \in {"returned", "failed"} /\ stage[i].refine \in {"ok", "badshape"}) =>
      ((pc[i] = "returned") <=> (OutcomeWithoutLogging(refineText[i]) = "ok"))

====
